---- MODULE Spec2Model ----
(***************************************************************************)
(* Model of the trace-logger package: the LoggerCircuitBreaker             *)
(* (src/src/circuit-breaker.ts), the CustomLogger orchestration and the    *)
(* formatter (src/src/logger.ts) and the AsyncLocalStorage trace scope     *)
(* used by httpLogger and formatLog (src/src/logger.ts).                   *)
(*                                                                         *)
(* Time is the value of Date.now() in abstract ticks.  Three               *)
(* specifications share the variables: SpecBreaker drives the breaker's    *)
(* public methods directly, SpecLogger drives CustomLogger.log, SpecTrace  *)
(* drives concurrent and nested asyncLocalStorage.run scopes.              *)
(***************************************************************************)
EXTENDS Integers, Sequences, FiniteSets, TLC

\* ---------------------------------------------------------------- bounds
MaxTime == 5
MaxStep == 3
MaxCount == 3
MaxWindow == 2
MaxCooldown == 3
MaxCallbacks == 2
MaxEvents == 3
MaxTasks == 3
MaxDepth == 2
MaxScopes == 2
MaxWrites == 2
MaxFaults == 1
MaxKeep == 2
MaxRotTime == 2
MaxHour == 3
MaxMinute == 3
MaxMilli == 5

VARIABLES
  now,            \* Date.now()
  breaker,        \* the LoggerCircuitBreaker instance: options and private fields
  callbackCalls,  \* number of circuitBreakerCallback invocations so far
  op,             \* the last step taken
  ret,            \* return value of the last isEnabled() call
  status,         \* return value of the last getStatus() call
  scen,           \* history: where the call sequence stands in the trip/recover scenario
  freshFails,     \* history: incrementErrorCount calls made so far in the scenario
  lastFail,       \* history: time of the previous incrementErrorCount call, -1 if none
  openedAt,       \* history: time of the call that completed the scenario's trip, -1 if none
  firstFail,      \* history: time of the scenario's first incrementErrorCount call, -1 if none
  trippedAt,      \* history: time of the last trip() call not yet followed by enable() or by
                  \* an isEnabled() call made a full cooldown later; -1 if none
  staleFrom,      \* history: errorCount before the last step when that step was an
                  \* incrementErrorCount call on a closed breaker made more than
                  \* circuitBreakerTime after lastResetTime; -1 otherwise
  currentLogLevelIndex,  \* CustomLogger.currentLogLevelIndex (0-based index in logLevels)
  fileTransport,  \* TRUE iff CustomLogger.fileTransport is set (mode 'pro' with a filePath)
  console,        \* what has been written to the console, in order
  streams,        \* append streams opened by fileTransport.write whose data is not yet in the file
  file,           \* the records in the log file, in order
  rotationChecks, \* number of rotator.checkAndRotate calls made
  diagnostics,    \* number of console.error reports made by the file sink and the rotator
  nextUuid,       \* uuidv4(): the next never-used identifier
  events,         \* number of log calls made so far; the next call is event events + 1
  call,           \* the last log call: its level, its outcome and the order of its effects
  store,          \* asyncLocalStorage.getStore() as seen by the running code: a trace id, or NoStore
  saved,          \* stores saved by the asyncLocalStorage.run calls active in the running code
  tasks,          \* the callbacks and continuations known to the event loop, with the store each captured
  running,        \* the task the event loop is executing, 0 when it is idle
  scope,          \* history: trace id of the innermost scope the running code was started in, 0 if none
  outer,          \* history: the scopes enclosing scope in the running code, outermost first
  nesting,        \* history: <<inner, enclosing>> for every scope started so far (enclosing 0: a request)
  expect,         \* history: for each log call, the scope it was made in
  rotation,       \* LogRotator.options: enabled, maxSize (a size string), maxFiles
  dir,            \* the log directory: for each file name the file it names, 0 if none
  inodes,         \* the files ever created: size, records appended, mtime
  wstreams,       \* append streams created by fileTransport.write and not yet finished:
                  \* the record and the file the stream has opened (0: none yet)
  writes,         \* number of fileTransport.write calls made so far
  arg,            \* the arguments of the last call of a pure function
  result,         \* what that call returned
  rot             \* the last step's checkAndRotate call: whether it found the file over
                  \* the limit, the faults the filesystem answered with, and the names
                  \* it unlinked

breakerVars == <<breaker, callbackCalls>>
callVars == <<op, ret, status>>
histVars == <<scen, freshFails, lastFail, openedAt, firstFail, trippedAt>>
staleVars == <<staleFrom>>
sinkVars == <<console, streams, file, rotationChecks, diagnostics>>
pureVars == <<arg, result>>
rotVars == <<rotation, dir, inodes, wstreams, writes, rot, pureVars>>
loggerVars == <<currentLogLevelIndex, fileTransport, sinkVars, nextUuid, events, call, rotVars>>
traceVars == <<saved, tasks, running, scope, outer, nesting, expect>>
vars == <<now, breakerVars, callVars, histVars, staleVars, loggerVars, store, traceVars>>

\* ------------------------------------------------- LoggerCircuitBreaker
NewBreaker(count, time, cooldown, t) ==
  [ options |-> [ circuitBreakerCount |-> count,
                  circuitBreakerTime |-> time,
                  circuitBreakerCooldown |-> cooldown ],
    errorCount |-> 0,
    lastResetTime |-> t,
    isOpen |-> FALSE ]

Max(a, b) == IF a >= b THEN a ELSE b

EnableKeepsCount(b, t) ==
  [b EXCEPT !.isOpen = FALSE, !.lastResetTime = t]

\* enable(): the breaker after the call
Enable(b, t) ==
  [b EXCEPT !.errorCount = 0, !.lastResetTime = t, !.isOpen = FALSE]

IsEnabledNoCountReset(b, t) ==
  IF ~b.isOpen THEN [b |-> b, ret |-> TRUE]
  ELSE IF t - b.lastResetTime >= b.options.circuitBreakerCooldown
       THEN [b |-> [b EXCEPT !.isOpen = FALSE], ret |-> TRUE]
       ELSE [b |-> b, ret |-> FALSE]

IsEnabledStrictCooldown(b, t) ==
  IF ~b.isOpen THEN [b |-> b, ret |-> TRUE]
  ELSE IF t - b.lastResetTime > b.options.circuitBreakerCooldown
       THEN [b |-> [b EXCEPT !.isOpen = FALSE, !.errorCount = 0], ret |-> TRUE]
       ELSE [b |-> b, ret |-> FALSE]

\* isEnabled(): the breaker after the call and the value returned
IsEnabled(b, t) ==
  IF ~b.isOpen THEN [b |-> b, ret |-> TRUE]
  ELSE IF t - b.lastResetTime >= b.options.circuitBreakerCooldown
       THEN [b |-> [b EXCEPT !.isOpen = FALSE, !.errorCount = 0], ret |-> TRUE]
       ELSE [b |-> b, ret |-> FALSE]

IncrementTripsEarly(b, t) ==
  IF b.isOpen THEN [b |-> b, fired |-> 0]
  ELSE LET n == IF t - b.lastResetTime > b.options.circuitBreakerTime
                THEN 1 ELSE b.errorCount + 1
           trip == n + 1 >= b.options.circuitBreakerCount
       IN [ b |-> [b EXCEPT !.errorCount = n, !.lastResetTime = t,
                            !.isOpen = trip],
            fired |-> IF trip THEN 1 ELSE 0 ]

IncrementAccumulatesStale(b, t) ==
  IF b.isOpen THEN [b |-> b, fired |-> 0]
  ELSE LET n == b.errorCount + 1
           trip == n >= b.options.circuitBreakerCount
       IN [ b |-> [b EXCEPT !.errorCount = n, !.lastResetTime = t,
                            !.isOpen = trip],
            fired |-> IF trip THEN 1 ELSE 0 ]

IncrementFixedWindow(b, t) ==
  IF b.isOpen THEN [b |-> b, fired |-> 0]
  ELSE LET stale == t - b.lastResetTime > b.options.circuitBreakerTime
           n == IF stale THEN 1 ELSE b.errorCount + 1
           trip == n >= b.options.circuitBreakerCount
       IN [ b |-> [b EXCEPT !.errorCount = n,
                            !.lastResetTime = IF stale \/ trip THEN t ELSE @,
                            !.isOpen = trip],
            fired |-> IF trip THEN 1 ELSE 0 ]

IncrementIgnoresOpen(b, t) ==
  LET n == IF t - b.lastResetTime > b.options.circuitBreakerTime
           THEN 1 ELSE b.errorCount + 1
      trip == n >= b.options.circuitBreakerCount
  IN [ b |-> [b EXCEPT !.errorCount = n, !.lastResetTime = t,
                       !.isOpen = trip],
       fired |-> IF trip THEN 1 ELSE 0 ]

\* incrementErrorCount(): the breaker after the call and the number of
\* circuitBreakerCallback invocations the call made
IncrementErrorCount(b, t) ==
  IF b.isOpen THEN [b |-> b, fired |-> 0]
  ELSE LET n == IF t - b.lastResetTime > b.options.circuitBreakerTime
                THEN 1 ELSE b.errorCount + 1
           trip == n >= b.options.circuitBreakerCount
       IN [ b |-> [b EXCEPT !.errorCount = n, !.lastResetTime = t,
                            !.isOpen = trip],
            fired |-> IF trip THEN 1 ELSE 0 ]

GetStatusUnclamped(b, t) ==
  [ isOpen |-> b.isOpen,
    errorCount |-> b.errorCount,
    lastResetTime |-> b.lastResetTime,
    timeSinceLastReset |-> t - b.lastResetTime,
    remainingCooldown |->
      IF b.isOpen
      THEN b.options.circuitBreakerCooldown - (t - b.lastResetTime)
      ELSE 0 ]

\* getStatus(): the snapshot returned
GetStatus(b, t) ==
  [ isOpen |-> b.isOpen,
    errorCount |-> b.errorCount,
    lastResetTime |-> b.lastResetTime,
    timeSinceLastReset |-> t - b.lastResetTime,
    remainingCooldown |->
      IF b.isOpen
      THEN Max(0, b.options.circuitBreakerCooldown - (t - b.lastResetTime))
      ELSE 0 ]

TripKeepsTime(b, t) ==
  [b EXCEPT !.isOpen = TRUE]

\* trip(): the breaker after the call
Trip(b, t) ==
  [b EXCEPT !.isOpen = TRUE, !.lastResetTime = t]

\* ------------------------------------------------------ call history
\* The scenario "fresh breaker, failures each within the window of the
\* previous one, then cooldown, then a state check" is followed from the
\* calls made and their times only.
ScenAfterIncrement ==
  IF scen = "fresh"
  THEN IF lastFail = -1 \/ now - lastFail <= breaker.options.circuitBreakerTime
       THEN IF freshFails + 1 = breaker.options.circuitBreakerCount
            THEN "tripped" ELSE "fresh"
       ELSE "off"
  ELSE IF scen = "tripped" THEN "tripped" ELSE "off"

ScenAfterIsEnabled ==
  IF scen = "tripped" /\ now - openedAt >= breaker.options.circuitBreakerCooldown
  THEN "recovered"
  ELSE scen

\* ------------------------------------------------------------ actions
\* ret and status hold what the last step returned; a step that returns
\* nothing leaves the null values.
NoStatus ==
  [ isOpen |-> FALSE, errorCount |-> -1, lastResetTime |-> -1,
    timeSinceLastReset |-> -1, remainingCooldown |-> -1 ]

\* the history is dropped once the call sequence has left the scenario
Hist(s, f, l, o) ==
  /\ scen' = s
  /\ freshFails' = IF s = "off" THEN 0 ELSE f
  /\ lastFail' = IF s = "off" THEN -1 ELSE l
  /\ openedAt' = IF s = "off" THEN -1 ELSE o
  /\ firstFail' = IF s = "off" THEN -1
                  ELSE IF firstFail = -1 THEN l ELSE firstFail

Tick ==
  \E d \in 1..MaxStep :
    /\ now + d <= MaxTime
    /\ now' = now + d
    /\ op' = "tick"
    /\ ret' = TRUE
    /\ status' = NoStatus
    /\ staleFrom' = -1
    /\ UNCHANGED <<breakerVars, histVars, loggerVars, store, traceVars>>

EnableCall ==
  /\ breaker' = Enable(breaker, now)
  /\ op' = "enable"
  /\ ret' = TRUE
  /\ status' = NoStatus
  /\ Hist("off", 0, -1, -1)
  /\ trippedAt' = -1
  /\ staleFrom' = -1
  /\ UNCHANGED <<now, callbackCalls, loggerVars, store, traceVars>>

IsEnabledCall ==
  /\ breaker' = IsEnabled(breaker, now).b
  /\ ret' = IsEnabled(breaker, now).ret
  /\ op' = "isEnabled"
  /\ status' = NoStatus
  /\ Hist(ScenAfterIsEnabled, freshFails, lastFail, openedAt)
  /\ trippedAt' = IF trippedAt >= 0
                     /\ now - trippedAt >= breaker.options.circuitBreakerCooldown
                  THEN -1 ELSE trippedAt
  /\ staleFrom' = -1
  /\ UNCHANGED <<now, callbackCalls, loggerVars, store, traceVars>>

IncrementErrorCountCall ==
  /\ callbackCalls < MaxCallbacks
  /\ breaker' = IncrementErrorCount(breaker, now).b
  /\ callbackCalls' = callbackCalls + IncrementErrorCount(breaker, now).fired
  /\ op' = "incrementErrorCount"
  /\ ret' = TRUE
  /\ status' = NoStatus
  /\ Hist(ScenAfterIncrement,
          IF scen = "fresh" THEN freshFails + 1 ELSE freshFails,
          now,
          IF scen = "fresh" /\ ScenAfterIncrement = "tripped"
          THEN now ELSE openedAt)
  /\ UNCHANGED trippedAt
  /\ staleFrom' = IF /\ ~breaker.isOpen
                     /\ now - breaker.lastResetTime > breaker.options.circuitBreakerTime
                  THEN breaker.errorCount ELSE -1
  /\ UNCHANGED <<now, loggerVars, store, traceVars>>

GetStatusCall ==
  /\ status' = GetStatus(breaker, now)
  /\ op' = "getStatus"
  /\ ret' = TRUE
  /\ staleFrom' = -1
  /\ UNCHANGED <<now, breakerVars, histVars, loggerVars, store, traceVars>>

TripCall ==
  /\ breaker' = Trip(breaker, now)
  /\ op' = "trip"
  /\ ret' = TRUE
  /\ status' = NoStatus
  /\ Hist("off", 0, -1, -1)
  /\ trippedAt' = now
  /\ staleFrom' = -1
  /\ UNCHANGED <<now, callbackCalls, loggerVars, store, traceVars>>


\* --------------------------------------------------------- CustomLogger
NoStore == 0
NoCall ==
  [ level |-> "none", outcome |-> "none", effects |-> <<>>,
    consoleFailed |-> FALSE, fileFailed |-> FALSE ]

logLevels == <<"debug", "info", "warn", "error">>

\* Array.indexOf on logLevels (0-based)
IndexOf(level) == (CHOOSE i \in 1..Len(logLevels) : logLevels[i] = level) - 1

ShouldLogOffByOne(level) == IndexOf(level) >= currentLogLevelIndex - 1

\* shouldLog(level)
ShouldLog(level) == IndexOf(level) >= currentLogLevelIndex

FormatLogCachesId(metadata, st, uuid) ==
  [ traceId |-> IF st # NoStore THEN st ELSE IF uuid > 1 THEN 1 ELSE uuid,
    fresh |-> IF st # NoStore THEN 0 ELSE 1,
    threw |-> metadata = "cyclic",
    metadata |-> IF metadata = "absent" THEN "{}" ELSE "json" ]

\* formatLog(level, msg, opts, ...): the trace id put on the record (the
\* store's, or else a new uuid), how many uuids were drawn, whether
\* JSON.stringify(opts.metadata) threw, and the rendered metadata
FormatLog(metadata, st, uuid) ==
  [ traceId |-> IF st # NoStore THEN st ELSE uuid,
    fresh |-> IF st # NoStore THEN 0 ELSE 1,
    threw |-> metadata = "cyclic",
    metadata |-> IF metadata = "absent" THEN "{}" ELSE "json" ]

\* rotator.checkAndRotate(absoluteFilePath) as called by fileTransport.write
\* of a logger whose rotator is disabled: the call returns at once
CheckAndRotate == rotationChecks' = rotationChecks + 1

\* fileTransport.write(data): rotation check, then a new append stream
\* holding the data; a synchronous failure is caught and reported
Write(rec, writeThrows) ==
  /\ CheckAndRotate
  /\ IF writeThrows
     THEN /\ diagnostics' = diagnostics + 1
          /\ UNCHANGED streams
     ELSE /\ streams' = streams \cup {rec}
          /\ UNCHANGED diagnostics

\* the default circuitBreakerCallback writes its notice with console.log
Notices(n) == IF n = 0 THEN <<>> ELSE <<[kind |-> "breakerNotice", ev |-> 0, traceId |-> 0]>>

Record(ev, traceId) == [kind |-> "record", ev |-> ev, traceId |-> traceId]

BreakerGatesEveryLevel(level) == TRUE

\* the levels whose events consult the breaker before being emitted
BreakerGates(level) == level = "error"

\* the levels whose emitted events are counted as failures
CountsFailure(level) == level = "error"

\* CustomLogger.log(level, msg, opts) as one step
WriteToConsoleThrows(q, rec, consoleFails) ==
  [ console |-> q, threw |-> consoleFails ]

\* writeToConsole(level, formattedLog, ...): console.log/warn/error of the
\* platform's global console, which drops the text and returns normally when
\* its stream fails
WriteToConsole(q, rec, consoleFails) ==
  [ console |-> IF consoleFails THEN q ELSE Append(q, rec), threw |-> FALSE ]

Log(level, metadata, writeThrows, consoleFails) ==
  LET ev == events + 1
      chk == IF BreakerGates(level) THEN IsEnabled(breaker, now)
                                ELSE [b |-> breaker, ret |-> TRUE]
      f1 == FormatLog(metadata, store, nextUuid)
      f2 == FormatLog(metadata, store, nextUuid + f1.fresh)
      inc == IF CountsFailure(level) THEN IncrementErrorCount(chk.b, now)
                                ELSE [b |-> chk.b, fired |-> 0]
      checked == IF BreakerGates(level) THEN <<"isEnabled">> ELSE <<>>
      cw == WriteToConsole(console, Record(ev, f1.traceId), consoleFails)
      quiet == [ level |-> level, consoleFailed |-> FALSE, fileFailed |-> FALSE ]
  IN
  /\ events < MaxEvents
  /\ callbackCalls < MaxCallbacks
  /\ events' = ev
  /\ op' = "log"
  /\ ret' = TRUE
  /\ status' = NoStatus
  /\ staleFrom' = -1
  /\ UNCHANGED <<now, histVars, currentLogLevelIndex, fileTransport, file, store, rotVars>>
  /\ IF ~ShouldLog(level)
     THEN /\ call' = [ quiet EXCEPT !.level = level ] @@
                     [ outcome |-> "suppressedByLevel", effects |-> <<>> ]
          /\ UNCHANGED <<breakerVars, console, streams, rotationChecks, diagnostics, nextUuid>>
     ELSE IF ~chk.ret
     THEN /\ call' = quiet @@
                     [ outcome |-> "suppressedByBreaker", effects |-> checked ]
          /\ breaker' = chk.b
          /\ UNCHANGED <<callbackCalls, console, streams, rotationChecks, diagnostics, nextUuid>>
     ELSE IF f1.threw
     THEN /\ call' = quiet @@ [ outcome |-> "threw", effects |-> checked ]
          /\ breaker' = chk.b
          /\ nextUuid' = nextUuid + f1.fresh
          /\ UNCHANGED <<callbackCalls, console, streams, rotationChecks, diagnostics>>
     ELSE IF cw.threw
     THEN /\ call' = [ quiet EXCEPT !.consoleFailed = TRUE ] @@
                     [ outcome |-> "threw", effects |-> checked \o <<"console">> ]
          /\ breaker' = chk.b
          /\ nextUuid' = nextUuid + f1.fresh
          /\ UNCHANGED <<callbackCalls, console, streams, rotationChecks, diagnostics>>
     ELSE /\ call' = [ level |-> level,
                       consoleFailed |-> consoleFails,
                       fileFailed |-> fileTransport /\ writeThrows,
                       outcome |-> "emitted",
                       effects |-> checked \o <<"console">>
                                   \o (IF fileTransport THEN <<"file">> ELSE <<>>)
                                   \o (IF CountsFailure(level)
                                       THEN <<"incrementErrorCount">> ELSE <<>>) ]
          /\ console' = cw.console \o Notices(inc.fired)
          /\ IF fileTransport
             THEN /\ Write(Record(ev, f2.traceId), writeThrows)
                  /\ nextUuid' = nextUuid + f1.fresh + f2.fresh
             ELSE /\ nextUuid' = nextUuid + f1.fresh
                  /\ UNCHANGED <<streams, rotationChecks, diagnostics>>
          /\ breaker' = inc.b
          /\ callbackCalls' = callbackCalls + inc.fired

\* logger.debug/info/warn/error with JSON-serializable (or no) metadata
LogCall ==
  \E level \in {"debug", "info", "warn", "error"}, metadata \in {"absent", "plain"} :
    Log(level, metadata, FALSE, FALSE) /\ UNCHANGED traceVars

\* logger.debug/info/warn/error with any options and a file sink that may fail
LogAnyCall ==
  \E level \in {"debug", "info", "warn", "error"},
     metadata \in {"absent", "plain", "cyclic"}, writeThrows \in BOOLEAN :
    Log(level, metadata, writeThrows, FALSE) /\ UNCHANGED traceVars

\* logger.info/error with either sink failing at the write
LogFaultyCall ==
  \E level \in {"info", "error"}, writeThrows \in BOOLEAN, consoleFails \in BOOLEAN :
    Log(level, "plain", writeThrows, consoleFails) /\ UNCHANGED traceVars

\* the platform completes one of the open append streams
StreamFlush ==
  \E rec \in streams :
    /\ streams' = streams \ {rec}
    /\ file' = Append(file, rec)
    /\ op' = "flush"
    /\ ret' = TRUE
    /\ status' = NoStatus
    /\ staleFrom' = -1
    /\ UNCHANGED <<now, breakerVars, histVars, currentLogLevelIndex, fileTransport,
                   console, rotationChecks, diagnostics, nextUuid, events, call, store,
                   traceVars, rotVars>>

\* ------------------------------------------- AsyncLocalStorage scopes
\* The event loop runs one callback at a time.  asyncLocalStorage.run(store,
\* body) makes store current for the synchronous run of body and puts the
\* previous store back when body returns; every callback or continuation
\* created while a store is current captures it, and the event loop makes
\* the captured store current when it runs that callback.
FreeTask == [st |-> "free", ctx |-> NoStore, owner |-> 0]

Last(q) == q[Len(q)]
Front(q) == SubSeq(q, 1, Len(q) - 1)

ContextOnResumeKeepsCurrent(t) == store

\* the store current when the event loop starts task t
ContextOnResume(t) == tasks[t].ctx

ContextAfterRunKeepsInner == store

\* the store current once asyncLocalStorage.run returns
ContextAfterRun == Last(saved)

TraceStep(name) ==
  /\ op' = name
  /\ ret' = TRUE
  /\ status' = NoStatus
  /\ staleFrom' = -1
  /\ UNCHANGED <<now, breakerVars, histVars>>

\* an inbound event (a request reaching the middleware chain) starts a
\* callback outside any scope
Arrive ==
  \E t \in 1..MaxTasks :
    /\ running = 0
    /\ tasks[t].st = "free"
    /\ \A u \in 1..(t - 1) : tasks[u].st # "free"
    /\ tasks' = [tasks EXCEPT ![t] = [st |-> "running", ctx |-> NoStore, owner |-> 0]]
    /\ running' = t
    /\ store' = NoStore
    /\ saved' = <<>>
    /\ scope' = 0
    /\ outer' = <<>>
    /\ TraceStep("arrive")
    /\ UNCHANGED <<loggerVars, nesting, expect>>

\* httpLogger's middleware: traceId = uuidv4(), store with that id,
\* asyncLocalStorage.run(store, ...) entered
RunEnter ==
  /\ running # 0
  /\ Len(saved) < MaxDepth
  /\ Cardinality(nesting) < MaxScopes
  /\ saved' = Append(saved, store)
  /\ store' = nextUuid
  /\ nextUuid' = nextUuid + 1
  /\ outer' = Append(outer, scope)
  /\ scope' = nextUuid
  /\ nesting' = nesting \cup {<<nextUuid, scope>>}
  /\ TraceStep("run")
  /\ UNCHANGED <<currentLogLevelIndex, fileTransport, sinkVars, events, call,
                 tasks, running, expect, rotVars>>

\* the body given to asyncLocalStorage.run returns
RunExit ==
  /\ running # 0
  /\ saved # <<>>
  /\ store' = ContextAfterRun
  /\ saved' = Front(saved)
  /\ scope' = Last(outer)
  /\ outer' = Front(outer)
  /\ TraceStep("exit")
  /\ UNCHANGED <<loggerVars, tasks, running, nesting, expect>>

\* the running code reaches a suspension point or registers a callback (an
\* await, a timer, res.on('finish', ...)): a continuation is created
Suspend ==
  \E t \in 1..MaxTasks :
    /\ running # 0
    /\ tasks[t].st = "free"
    /\ \A u \in 1..(t - 1) : tasks[u].st # "free"
    /\ tasks' = [tasks EXCEPT ![t] = [st |-> "ready", ctx |-> store, owner |-> scope]]
    /\ TraceStep("suspend")
    /\ UNCHANGED <<loggerVars, store, saved, running, scope, outer, nesting, expect>>

\* the running callback returns to the event loop
Return ==
  /\ running # 0
  /\ saved = <<>>
  /\ tasks' = [tasks EXCEPT ![running] = [st |-> "done", ctx |-> NoStore, owner |-> 0]]
  /\ running' = 0
  /\ store' = NoStore
  /\ scope' = 0
  /\ TraceStep("return")
  /\ UNCHANGED <<loggerVars, saved, outer, nesting, expect>>

\* the event loop runs a ready continuation
Resume ==
  \E t \in 1..MaxTasks :
    /\ running = 0
    /\ tasks[t].st = "ready"
    /\ tasks' = [tasks EXCEPT ![t].st = "running"]
    /\ running' = t
    /\ store' = ContextOnResume(t)
    /\ scope' = tasks[t].owner
    /\ saved' = <<>>
    /\ outer' = <<>>
    /\ TraceStep("resume")
    /\ UNCHANGED <<loggerVars, nesting, expect>>

\* the running code calls logger.info (as httpLogger's finish listener does)
TraceLog ==
  /\ running # 0
  /\ Log("info", "plain", FALSE, FALSE)
  /\ expect' = Append(expect, scope)
  /\ UNCHANGED <<saved, tasks, running, scope, outer, nesting>>

\* --------------------------------------------------------- log rotation
\* File names in the log directory: the active file's name (say app.log),
\* the name rotateFile builds from the millisecond timestamp t (one name per
\* millisecond), a log file of other origin whose name starts with the
\* active file's base name (say app-errors.log), and one whose name does not
\* (say server.log). Every name ends with the active file's extension.
ActiveName == -1
OtherLog == -2
Unrelated == -3
RotatedName(t) == t
Names == {ActiveName, OtherLog, Unrelated} \cup {RotatedName(t) : t \in 0..MaxTime}

\* file.startsWith(baseName)
StartsWithBaseName(n) == n # Unrelated

\* the filter of cleanupOldFiles: starts with the base name, ends with the
\* extension, is not the active file's name
PassesFilter(n) == StartsWithBaseName(n) /\ n # ActiveName

\* A size string is kept as what parseSize's regular expression captures
\* from it: the number in tenths, the unit letter ("" when absent), and
\* whether the expression matches at all.
SizeString(tenths, unit, wellFormed) ==
  [tenths |-> tenths, unit |-> unit, wellFormed |-> wellFormed]

\* new LogRotator({}): rotation off, '10m', 5 files
DefaultRotation ==
  [enabled |-> FALSE, maxSize |-> SizeString(100, "m", TRUE), maxFiles |-> 5]

Units(u) ==
  CASE u = "b" -> 1
    [] u = "k" -> 1024
    [] u = "m" -> 1024 * 1024
    [] u = "g" -> 1024 * 1024 * 1024

\* parseSize(sizeStr): bytes, rounded down; 10 MiB for a malformed string
ParseSize(s) ==
  IF ~s.wellFormed THEN 10 * 1024 * 1024
  ELSE (s.tenths * Units(IF s.unit = "" THEN "b" ELSE s.unit)) \div 10

NewFile(size, t) == [size |-> size, recs |-> <<>>, mtime |-> t]

NoRot ==
  [checked |-> FALSE, over |-> FALSE, renameFailed |-> FALSE, unlinkFailed |-> FALSE,
   removed |-> {}]

\* stats.size > maxSize, reached only when rotation is enabled and the file exists
OverLimitInclusive(opts, d, ino) ==
  /\ opts.enabled
  /\ d[ActiveName] # 0
  /\ ino[d[ActiveName]].size >= ParseSize(opts.maxSize)

OverLimit(opts, d, ino) ==
  /\ opts.enabled
  /\ d[ActiveName] # 0
  /\ ino[d[ActiveName]].size > ParseSize(opts.maxSize)

RotateFileCopies(d, t, renameFails) ==
  IF renameFails
  THEN [dir |-> d, reports |-> 1]
  ELSE [dir |-> [d EXCEPT ![RotatedName(t)] = d[ActiveName]], reports |-> 0]

RotateFileDropsActiveOnFailure(d, t, renameFails) ==
  IF renameFails
  THEN [dir |-> [d EXCEPT ![ActiveName] = 0], reports |-> 1]
  ELSE [dir |-> [d EXCEPT ![RotatedName(t)] = d[ActiveName], ![ActiveName] = 0],
        reports |-> 0]

\* rotateFile(filePath): renameSync to the timestamped name (replacing a
\* file of that name); a failure is reported and swallowed
RotateFile(d, t, renameFails) ==
  IF renameFails
  THEN [dir |-> d, reports |-> 1]
  ELSE [dir |-> [d EXCEPT ![RotatedName(t)] = d[ActiveName], ![ActiveName] = 0],
        reports |-> 0]

\* the directory entries cleanupOldFiles considers: every matching name but the active one
Siblings(d) == {n \in Names : PassesFilter(n) /\ d[n] # 0}

FilesToRemoveNewest(d, ino, maxFiles) ==
  LET S == Siblings(d) IN
  IF Cardinality(S) <= maxFiles THEN {{}}
  ELSE {D \in SUBSET S :
          /\ Cardinality(D) = Cardinality(S) - maxFiles
          /\ \A x \in D, k \in S \ D : ino[d[x]].mtime >= ino[d[k]].mtime}

\* files.slice(maxFiles) of the siblings sorted newest first: the sets it can
\* be (files of equal mtime are ordered as readdirSync listed them)
FilesToRemove(d, ino, maxFiles) ==
  LET S == Siblings(d) IN
  IF Cardinality(S) <= maxFiles THEN {{}}
  ELSE {D \in SUBSET S :
          /\ Cardinality(D) = Cardinality(S) - maxFiles
          /\ \A x \in D, k \in S \ D : ino[d[x]].mtime <= ino[d[k]].mtime}

\* cleanupOldFiles(filePath): the possible outcomes; an unlinkSync that fails
\* is reported and the file stays
CleanupOldFiles(d, ino, maxFiles, unlinkFails) ==
  { [dir |-> IF unlinkFails THEN d
             ELSE [n \in Names |-> IF n \in D THEN 0 ELSE d[n]],
     reports |-> IF unlinkFails THEN Cardinality(D) ELSE 0,
     removed |-> IF unlinkFails THEN {} ELSE D]
    : D \in FilesToRemove(d, ino, maxFiles) }

\* checkAndRotate(filePath) of an enabled or disabled rotator on the directory
RotatorCheck(renameFails, unlinkFails) ==
  IF ~OverLimit(rotation, dir, inodes)
  THEN /\ UNCHANGED <<dir, diagnostics>>
       /\ rot' = [NoRot EXCEPT !.checked = TRUE]
  ELSE LET r == RotateFile(dir, now, renameFails) IN
       \E c \in CleanupOldFiles(r.dir, inodes, rotation.maxFiles, unlinkFails) :
         /\ dir' = c.dir
         /\ diagnostics' = diagnostics + r.reports + c.reports
         /\ rot' = [checked |-> TRUE, over |-> TRUE,
                    renameFailed |-> renameFails,
                    unlinkFailed |-> c.reports > 0,
                    removed |-> c.removed]

RotStep(name) ==
  /\ op' = name
  /\ ret' = TRUE
  /\ status' = NoStatus
  /\ staleFrom' = -1
  /\ UNCHANGED <<breakerVars, histVars, currentLogLevelIndex, fileTransport,
                 console, streams, file, rotationChecks, nextUuid, events, call,
                 store, traceVars, rotation, pureVars>>

\* fileTransport.write(data) with the rotator at work: the check, then a new
\* append stream for the record
FileWrite(faults) ==
  /\ writes < MaxWrites
  /\ \E renameFails \in faults, unlinkFails \in faults :
       RotatorCheck(renameFails, unlinkFails)
  /\ wstreams' = wstreams \cup {[ev |-> writes + 1, fd |-> 0]}
  /\ writes' = writes + 1
  /\ RotStep("write")
  /\ UNCHANGED <<now, inodes>>

\* logger.rotateLogs(): the check alone
RotateLogs(faults) ==
  /\ \E renameFails \in faults, unlinkFails \in faults :
       RotatorCheck(renameFails, unlinkFails)
  /\ RotStep("rotateLogs")
  /\ UNCHANGED <<now, inodes, wstreams, writes>>

FileWriteCall == FileWrite({FALSE})
RotateLogsCall == RotateLogs({FALSE})
\* the answers the filesystem may give once diagnostics reports have been made
Faults == IF diagnostics < MaxFaults THEN BOOLEAN ELSE {FALSE}

FileWriteFaulty == FileWrite(Faults)
RotateLogsFaulty == RotateLogs(Faults)

\* a millisecond passes
RotTick ==
  /\ now < MaxRotTime
  /\ now' = now + 1
  /\ rot' = NoRot
  /\ RotStep("tick")
  /\ UNCHANGED <<dir, inodes, wstreams, writes, diagnostics>>

\* the platform opens a stream's file: flag 'a' opens the file the active
\* path names at that moment and creates it when there is none
StreamOpen ==
  \E s \in wstreams :
    /\ s.fd = 0
    /\ IF dir[ActiveName] = 0
       THEN /\ inodes' = Append(inodes, NewFile(0, now))
            /\ dir' = [dir EXCEPT ![ActiveName] = Len(inodes) + 1]
            /\ wstreams' = (wstreams \ {s}) \cup {[s EXCEPT !.fd = Len(inodes) + 1]}
       ELSE /\ wstreams' = (wstreams \ {s}) \cup {[s EXCEPT !.fd = dir[ActiveName]]}
            /\ UNCHANGED <<inodes, dir>>
    /\ rot' = NoRot
    /\ RotStep("open")
    /\ UNCHANGED <<now, diagnostics, writes>>

\* the platform appends an opened stream's record, one unit long, to its
\* file and closes the stream
StreamAppend ==
  \E s \in wstreams :
    /\ s.fd # 0
    /\ inodes' = [inodes EXCEPT ![s.fd] = [size |-> @.size + 1,
                                           recs |-> Append(@.recs, s.ev),
                                           mtime |-> now]]
    /\ wstreams' = wstreams \ {s}
    /\ rot' = NoRot
    /\ RotStep("append")
    /\ UNCHANGED <<now, dir, diagnostics, writes>>

\* ------------------------------------------------ rotated file names
\* Strings are sequences of one-character strings.
Digits == <<"0", "1", "2", "3", "4", "5", "6", "7", "8", "9">>

RECURSIVE Pad(_, _)
\* the decimal digits of n, zero-padded to the given width
Pad(n, width) ==
  IF width = 0 THEN <<>>
  ELSE Append(Pad(n \div 10, width - 1), Digits[(n % 10) + 1])

\* Date.prototype.toISOString(): YYYY-MM-DDTHH:mm:ss.sssZ
ToISOString(d) ==
  Pad(d.year, 4) \o <<"-">> \o Pad(d.month, 2) \o <<"-">> \o Pad(d.day, 2)
  \o <<"T">> \o Pad(d.hour, 2) \o <<":">> \o Pad(d.minute, 2)
  \o <<":">> \o Pad(d.second, 2) \o <<".">> \o Pad(d.milli, 3) \o <<"Z">>

ReplaceAllFirstOnly(str, chars, c) ==
  [i \in 1..Len(str) |->
     IF str[i] \in chars /\ \A j \in 1..(i - 1) : str[j] \notin chars
     THEN c ELSE str[i]]

\* str.replace(/[chars]/g, c)
ReplaceAll(str, chars, c) ==
  [i \in 1..Len(str) |-> IF str[i] \in chars THEN c ELSE str[i]]

\* str.replace(a, b) with a string pattern: the first occurrence only
ReplaceFirst(str, a, b) ==
  [i \in 1..Len(str) |->
     IF str[i] = a /\ \A j \in 1..(i - 1) : str[j] # a THEN b ELSE str[i]]

\* str.split(sep)[0]
BeforeFirst(str, sep) ==
  IF \E i \in 1..Len(str) : str[i] = sep
  THEN SubSeq(str, 1, (CHOOSE i \in 1..Len(str) :
                         str[i] = sep /\ \A j \in 1..(i - 1) : str[j] # sep) - 1)
  ELSE str

\* rotateFile's timestamp
Timestamp(d) ==
  BeforeFirst(ReplaceFirst(ReplaceAll(ToISOString(d), {":", "."}, "-"), "T", "_"), "Z")

\* rotateFile's rotatedPath for a file path given as its directory, base
\* name and extension
RotatedPath(path, d) ==
  [ dir |-> path.dir,
    name |-> path.base \o <<"-">> \o Timestamp(d) \o path.ext ]

\* the active file paths tried: logs/app.log and data/out (no extension)
Paths ==
  { [dir |-> "logs", base |-> <<"a", "p", "p">>, ext |-> <<".", "l", "o", "g">>],
    [dir |-> "data", base |-> <<"o", "u", "t">>, ext |-> <<>>] }

\* the rotation times tried
Dates ==
  [ year : {2026}, month : {11}, day : {3}, hour : 0..MaxHour,
    minute : 0..MaxMinute, second : {0, 59}, milli : 0..MaxMilli ]

PureStep(name) ==
  /\ op' = name
  /\ ret' = TRUE
  /\ status' = NoStatus
  /\ staleFrom' = -1
  /\ UNCHANGED <<now, breakerVars, histVars, currentLogLevelIndex, fileTransport,
                 sinkVars, nextUuid, events, call, store, traceVars,
                 rotation, dir, inodes, wstreams, writes, rot>>

\* rotateFile computes the name for a path at a time
RotatedPathCall ==
  \E path \in Paths, d \in Dates :
    /\ arg' = [path |-> path, date |-> d]
    /\ result' = RotatedPath(path, d)
    /\ PureStep("rotatedPath")

\* ------------------------------------------------------ formatted record
\* formatLog's output as its lines, each with the marker it starts with; the
\* call throws when rendering the metadata throws. The error is "absent", an
\* Error carrying a stack ("withStack") or one whose stack is undefined or
\* empty ("noStack").
FormatLines(level, metadata, error, useColors, st, uuid) ==
  LET f == FormatLog(metadata, st, uuid)
      Line(mark) == [mark |-> mark, dim |-> useColors, metadata |-> f.metadata]
  IN IF f.threw
     THEN [threw |-> TRUE, lines |-> <<>>]
     ELSE [threw |-> FALSE,
           lines |-> << Line(level), Line("Trace Id:"), Line("Function Name:"),
                        Line("Metadata:") >>
                     \o (IF error = "withStack"
                         THEN << Line("Error Stack:") >> ELSE <<>>)]

\* formatLog called for an event
FormatLogCall ==
  \E level \in {"debug", "info", "warn", "error"},
     metadata \in {"absent", "plain", "cyclic"},
     error \in {"absent", "withStack", "noStack"},
     useColors \in BOOLEAN, st \in {NoStore, 1} :
    /\ arg' = [level |-> level, metadata |-> metadata, error |-> error,
               useColors |-> useColors, store |-> st]
    /\ result' = FormatLines(level, metadata, error, useColors, st, nextUuid)
    /\ PureStep("formatLog")

\* ----------------------------------------------------- specifications
InitSinks ==
  /\ console = <<>>
  /\ streams = {}
  /\ file = <<>>
  /\ rotationChecks = 0
  /\ diagnostics = 0
  /\ nextUuid = 1
  /\ events = 0
  /\ call = NoCall
  /\ store = NoStore
  /\ saved = <<>>
  /\ tasks = [t \in 1..MaxTasks |-> FreeTask]
  /\ running = 0
  /\ scope = 0
  /\ outer = <<>>
  /\ nesting = {}
  /\ expect = <<>>
  /\ arg = <<>>
  /\ result = <<>>

InitNoDisk ==
  /\ rotation = DefaultRotation
  /\ dir = [n \in Names |-> 0]
  /\ inodes = <<>>
  /\ wstreams = {}
  /\ writes = 0
  /\ rot = NoRot

InitCalls ==
  /\ now = 0
  /\ callbackCalls = 0
  /\ op = "new"
  /\ ret = TRUE
  /\ status = NoStatus
  /\ scen = "off"
  /\ freshFails = 0
  /\ lastFail = -1
  /\ openedAt = -1
  /\ firstFail = -1
  /\ trippedAt = -1
  /\ staleFrom = -1


InitBreaker ==
  /\ now = 0
  /\ \E c \in 1..MaxCount, w \in 1..MaxWindow, cd \in 1..MaxCooldown :
       breaker = NewBreaker(c, w, cd, 0)
  /\ callbackCalls = 0
  /\ op = "new"
  /\ ret = TRUE
  /\ status = NoStatus
  /\ scen = "fresh"
  /\ freshFails = 0
  /\ lastFail = -1
  /\ openedAt = -1
  /\ firstFail = -1
  /\ trippedAt = -1
  /\ staleFrom = -1
  /\ currentLogLevelIndex = 1
  /\ fileTransport = FALSE
  /\ InitSinks
  /\ InitNoDisk

NextBreaker ==
  \/ Tick
  \/ EnableCall
  \/ IsEnabledCall
  \/ IncrementErrorCountCall
  \/ GetStatusCall
  \/ TripCall

SpecBreaker == InitBreaker /\ [][NextBreaker]_vars

InitLogger ==
  /\ InitCalls
  /\ \E c \in 1..MaxCount : breaker = NewBreaker(c, MaxWindow, MaxCooldown, 0)
  /\ currentLogLevelIndex \in 0..(Len(logLevels) - 1)
  /\ fileTransport \in BOOLEAN
  /\ InitSinks
  /\ InitNoDisk

NextLogger ==
  \/ Tick
  \/ LogCall
  \/ StreamFlush

SpecLogger == InitLogger /\ [][NextLogger]_vars

NextCaller ==
  \/ Tick
  \/ LogAnyCall
  \/ StreamFlush

\* a 'pro'-mode logger at level 'debug' whose sinks may fail
InitFaulty ==
  /\ InitCalls
  /\ \E c \in 1..MaxCount : breaker = NewBreaker(c, MaxWindow, MaxCooldown, 0)
  /\ currentLogLevelIndex = 0
  /\ fileTransport = TRUE
  /\ InitSinks
  /\ InitNoDisk

NextFaulty ==
  \/ Tick
  \/ LogFaultyCall

SpecFaulty == InitFaulty /\ [][NextFaulty]_vars

SpecCaller == InitLogger /\ [][NextCaller]_vars

InitTrace ==
  /\ InitCalls
  /\ breaker = NewBreaker(MaxCount, MaxWindow, MaxCooldown, 0)
  /\ currentLogLevelIndex = 1
  /\ fileTransport = FALSE
  /\ InitSinks
  /\ InitNoDisk

NextTrace ==
  \/ Arrive
  \/ RunEnter
  \/ RunExit
  \/ Suspend
  \/ Return
  \/ Resume
  \/ TraceLog

SpecTrace == InitTrace /\ [][NextTrace]_vars

\* the maxSize strings tried: '1k' and '0.5'
SizeStrings == {SizeString(10, "k", TRUE), SizeString(5, "", TRUE)}

\* the sizes the active file may have when the logger starts
InitialSizes == {0, 1024, 2000}

\* A 'pro'-mode logger on a log directory that holds at most an active file
InitRotate ==
  /\ InitCalls
  /\ breaker = NewBreaker(MaxCount, MaxWindow, MaxCooldown, 0)
  /\ currentLogLevelIndex = 1
  /\ fileTransport = TRUE
  /\ InitSinks
  /\ \E e \in BOOLEAN, m \in SizeStrings, k \in 1..MaxKeep :
       rotation = [enabled |-> e, maxSize |-> m, maxFiles |-> k]
  /\ \/ /\ inodes = <<>>
        /\ dir = [n \in Names |-> 0]
     \/ \E size \in InitialSizes :
          /\ inodes = <<NewFile(size, 0)>>
          /\ dir = [n \in Names |-> IF n = ActiveName THEN 1 ELSE 0]
  /\ wstreams = {}
  /\ writes = 0
  /\ rot = NoRot

\* file-sink writes and manual rotation on a filesystem that does not fail
NextRotate ==
  \/ RotTick
  \/ FileWriteCall
  \/ RotateLogsCall
  \/ StreamOpen
  \/ StreamAppend

SpecRotate == InitRotate /\ [][NextRotate]_vars

\* the same on a filesystem whose renameSync and unlinkSync may fail
NextRotateFaults ==
  \/ RotTick
  \/ FileWriteFaulty
  \/ RotateLogsFaulty
  \/ StreamOpen
  \/ StreamAppend

SpecRotateFaults == InitRotate /\ [][NextRotateFaults]_vars

\* a logger whose functions are called on their own
InitPure ==
  /\ InitCalls
  /\ breaker = NewBreaker(MaxCount, MaxWindow, MaxCooldown, 0)
  /\ currentLogLevelIndex = 1
  /\ fileTransport = FALSE
  /\ InitSinks
  /\ InitNoDisk

NextNaming == RotatedPathCall

SpecNaming == InitPure /\ [][NextNaming]_vars

NextFormat == FormatLogCall

SpecFormat == InitPure /\ [][NextFormat]_vars

\* A 'pro'-mode logger with rotation on, in a log directory that also holds
\* two log files written by something else
InitShared ==
  /\ InitCalls
  /\ breaker = NewBreaker(MaxCount, MaxWindow, MaxCooldown, 0)
  /\ currentLogLevelIndex = 1
  /\ fileTransport = TRUE
  /\ InitSinks
  /\ \E m \in SizeStrings, k \in 1..MaxKeep :
       rotation = [enabled |-> TRUE, maxSize |-> m, maxFiles |-> k]
  /\ \E size \in InitialSizes :
       inodes = <<NewFile(size, 0), NewFile(size, 0), NewFile(size, 0)>>
  /\ dir = [n \in Names |-> IF n = ActiveName THEN 1
                             ELSE IF n = OtherLog THEN 2
                             ELSE IF n = Unrelated THEN 3 ELSE 0]
  /\ wstreams = {}
  /\ writes = 0
  /\ rot = NoRot

SpecShared == InitShared /\ [][NextRotate]_vars

\* ================================================= breaker properties
Count == breaker.options.circuitBreakerCount
Window == breaker.options.circuitBreakerTime
Cooldown == breaker.options.circuitBreakerCooldown

\* C1: on a fresh breaker, after exactly Count incrementErrorCount calls each
\* within the window of the previous one, the breaker is open and isEnabled()
\* returns false for as long as less than the cooldown has elapsed since the
\* trip; the first isEnabled() call made once the cooldown has elapsed returns
\* true, leaves the breaker closed with errorCount 0, and a getStatus() made
\* afterwards reports errorCount 0.
C1_TripAndLazyRecovery ==
  /\ scen = "tripped" =>
       /\ breaker.isOpen
       /\ (now - openedAt < Cooldown => ~IsEnabled(breaker, now).ret)
       /\ (op = "isEnabled" => ret = FALSE)
  /\ scen = "recovered" =>
       /\ ~breaker.isOpen
       /\ breaker.errorCount = 0
       /\ (op = "isEnabled" => ret = TRUE)
       /\ (op = "getStatus" => status.errorCount = 0 /\ ~status.isOpen)

C1_Witness ==
  /\ scen = "recovered"
  /\ op = "getStatus"
  /\ Count = 3
  /\ freshFails = 3
  /\ now - openedAt >= Cooldown

\* C2: on a fresh breaker, after N < Count consecutive incrementErrorCount
\* calls within the window, the breaker is closed, isEnabled() returns true
\* and circuitBreakerCallback has not been invoked.
C2_BelowThresholdStaysClosed ==
  (scen = "fresh" /\ freshFails < Count) =>
       /\ ~breaker.isOpen
       /\ IsEnabled(breaker, now).ret
       /\ (op = "isEnabled" => ret = TRUE)
       /\ callbackCalls = 0

C2_Witness ==
  /\ scen = "fresh"
  /\ op = "incrementErrorCount"
  /\ Count = 3
  /\ freshFails = 2

\* C3: an incrementErrorCount call on a closed breaker made strictly more
\* than circuitBreakerTime after lastResetTime leaves errorCount = 1 and
\* lastResetTime = now; with Count = 1 the same call opens the breaker.
C3_StaleWindowReset ==
  staleFrom >= 0 =>
       /\ breaker.errorCount = 1
       /\ breaker.lastResetTime = now
       /\ (Count = 1 => breaker.isOpen)
       /\ (Count > 1 => ~breaker.isOpen)

C3_Witness ==
  /\ staleFrom = 2
  /\ breaker.errorCount = 1
  /\ op = "incrementErrorCount"

C3_WitnessThresholdOne ==
  /\ staleFrom = 0
  /\ Count = 1
  /\ breaker.isOpen

\* C4 as stated: the breaker opens only with errorCount >= Count, stays open
\* until the cooldown has elapsed and an isEnabled() check closes it with
\* errorCount 0, and only incrementErrorCount and isEnabled change the open
\* flag and the count.
C4_OnlyFailureAndCheckMutate ==
  [][ /\ (~breaker.isOpen /\ breaker'.isOpen) => breaker'.errorCount >= Count
      /\ (breaker.isOpen /\ ~breaker'.isOpen) =>
            /\ op' = "isEnabled"
            /\ now - breaker.lastResetTime >= Cooldown
            /\ breaker'.errorCount = 0
      /\ (breaker'.isOpen # breaker.isOpen \/ breaker'.errorCount # breaker.errorCount)
            => op' \in {"incrementErrorCount", "isEnabled"} ]_vars

\* C4 amended: the breaker opens only by incrementErrorCount with
\* errorCount >= Count or by trip(); once open it stays open until enable()
\* is called or isEnabled() is called with now - lastResetTime >= cooldown,
\* and either leaves errorCount = 0; an isEnabled() call on an open breaker
\* whose cooldown has elapsed always closes it; getStatus and the passage of
\* time change neither the open flag nor the count.
C4_BreakerTransitions ==
  [][ /\ (~breaker.isOpen /\ breaker'.isOpen) =>
            \/ op' = "trip"
            \/ op' = "incrementErrorCount" /\ breaker'.errorCount >= Count
      /\ (breaker.isOpen /\ ~breaker'.isOpen) =>
            /\ \/ op' = "enable"
               \/ op' = "isEnabled" /\ now - breaker.lastResetTime >= Cooldown
            /\ breaker'.errorCount = 0
      /\ (op' = "isEnabled" /\ breaker.isOpen
            /\ now - breaker.lastResetTime >= Cooldown) =>
            /\ ~breaker'.isOpen
            /\ breaker'.errorCount = 0
            /\ ret'
      /\ (breaker'.isOpen # breaker.isOpen \/ breaker'.errorCount # breaker.errorCount)
            => op' \in {"incrementErrorCount", "isEnabled", "enable", "trip"} ]_vars

C4_Witness ==
  /\ op = "trip"
  /\ breaker.isOpen
  /\ breaker.errorCount < Count
  /\ breaker.lastResetTime = now

\* ================================================== logger properties
LogStep == events' = events + 1

Records(q) == {q[i] : i \in {j \in 1..Len(q) : q[j].kind = "record"}}

Positions(q, x) == {i \in 1..Len(q) : q[i] = x}

\* C5: a log call whose level is below the configured logLevel, or that is
\* error-level while the breaker is open with its cooldown not elapsed,
\* writes nothing to the console, opens no append stream, appends nothing to
\* the file, makes no rotation check and leaves the breaker (open flag,
\* errorCount, lastResetTime) and its callback untouched.
C5_SuppressedCallHasNoEffects ==
  [][ ( /\ LogStep
        /\ \/ IndexOf(call'.level) < currentLogLevelIndex
           \/ /\ call'.level = "error"
              /\ breaker.isOpen
              /\ now - breaker.lastResetTime < Cooldown )
      => /\ call'.outcome \in {"suppressedByLevel", "suppressedByBreaker"}
         /\ console' = console
         /\ streams' = streams
         /\ file' = file
         /\ rotationChecks' = rotationChecks
         /\ diagnostics' = diagnostics
         /\ breaker' = breaker
         /\ callbackCalls' = callbackCalls ]_vars

C5_Witness ==
  /\ op = "log"
  /\ call.outcome = "suppressedByBreaker"
  /\ call.level = "error"
  /\ fileTransport
  /\ breaker.isOpen
  /\ now - breaker.lastResetTime < Cooldown
  /\ console # <<>>

\* C6: incrementErrorCount is called exactly once for every emitted
\* error-level event, as the last effect of the call, after the console write
\* and the file write, and it records the failure at the time of the call; a
\* suppressed error-level event leaves the breaker alone; debug, info and warn
\* events never change the breaker or its callback count, are never checked
\* against it and are emitted exactly when they pass the level threshold,
\* whether the breaker is open or closed.
C6_BreakerCountsErrorEventsOnly ==
  [][ LogStep =>
      LET c == call'
          incs == Positions(c.effects, "incrementErrorCount")
      IN /\ (c.level = "error" /\ c.outcome = "emitted") =>
               /\ incs = {Len(c.effects)}
               /\ Positions(c.effects, "console") # {}
               /\ fileTransport => Positions(c.effects, "file") # {}
               /\ \A i \in Positions(c.effects, "console") \cup Positions(c.effects, "file") :
                     i < Len(c.effects)
               /\ breaker'.lastResetTime = now
               /\ breaker'.errorCount = 1 \/ breaker'.errorCount = breaker.errorCount + 1
               /\ Len(console') > Len(console)
         /\ (c.level = "error" /\ c.outcome # "emitted") =>
               /\ incs = {}
               /\ breaker' = breaker
               /\ console' = console
         /\ c.level # "error" =>
               /\ incs = {}
               /\ Positions(c.effects, "isEnabled") = {}
               /\ breaker' = breaker
               /\ callbackCalls' = callbackCalls
               /\ (c.outcome = "emitted") = (IndexOf(c.level) >= currentLogLevelIndex)
               /\ (c.outcome = "emitted") => Len(console') = Len(console) + 1 ]_vars

C6_Witness ==
  /\ op = "log"
  /\ call.level = "warn"
  /\ call.outcome = "emitted"
  /\ breaker.isOpen
  /\ now - breaker.lastResetTime < Cooldown
  /\ \E r \in Records(console) : r.ev = events

\* C7: no call of logger.debug/info/warn/error, whatever its options and
\* whatever the file sink does, lets an exception reach the caller.
C7_LoggingNeverThrows ==
  call.outcome # "threw"

\* ================================================ trace properties
\* C8: every record logged inside a scoped unit of work carries the trace id
\* of that unit, whatever other units ran in between; so all records of one
\* unit carry one id and none carries another unit's.
C8_TraceIsolation ==
  \A r \in Records(console) :
     expect[r.ev] # 0 =>
        /\ r.traceId = expect[r.ev]
        /\ \A p \in nesting : p[1] # expect[r.ev] => r.traceId # p[1]

C8_Witness ==
  /\ Len(console) = 3
  /\ Len(expect) = 3
  /\ expect[1] # 0
  /\ expect[2] # 0
  /\ expect[1] # expect[2]
  /\ expect[3] = expect[1]
  /\ <<expect[1], 0>> \in nesting
  /\ <<expect[2], 0>> \in nesting
  /\ op = "log"
  /\ running # 0
  /\ tasks[running].ctx = expect[3]
  /\ saved = <<>>

\* C9: the running code always observes the id of the innermost scope it is
\* in: inside a nested scope the nested id, after the nested body returns the
\* enclosing id again (the stores to restore are exactly the enclosing
\* scopes'); a continuation waiting in the event loop keeps the id of the
\* scope that created it, whatever scopes are entered meanwhile.
C9_StackDiscipline ==
  /\ running # 0 =>
       /\ store = scope
       /\ saved = outer
  /\ \A t \in 1..MaxTasks :
       tasks[t].st = "ready" => tasks[t].ctx = tasks[t].owner

C9_Witness ==
  /\ running # 0
  /\ op = "exit"
  /\ store # NoStore
  /\ \E p \in nesting :
       /\ p[2] = store
       /\ \E r \in Records(console) : r.traceId = p[1]
       /\ \E t \in 1..MaxTasks : tasks[t].st = "ready" /\ tasks[t].ctx = p[1]
  /\ \E t \in 1..MaxTasks : tasks[t].st = "ready" /\ tasks[t].ctx = store

\* C10: outside any scope the store is absent, and a log call made there is
\* emitted with an identifier of its own: one that is no scope's trace id and
\* that no record of any other event, earlier or later, carries.
C10_EphemeralIdOutsideScope ==
  /\ (running # 0 /\ scope = 0) => store = NoStore
  /\ (op = "log" /\ scope = 0) =>
        /\ call.outcome = "emitted"
        /\ \E r \in Records(console) : r.ev = events
  /\ \A r \in Records(console) :
        expect[r.ev] = 0 =>
           /\ r.traceId # NoStore
           /\ \A p \in nesting : p[1] # r.traceId
           /\ \A q \in Records(console) : q.ev # r.ev => q.traceId # r.traceId

C10_Witness ==
  /\ Len(console) = 3
  /\ expect[1] = 0
  /\ expect[2] # 0
  /\ expect[3] = 0
  /\ console[1].traceId # console[3].traceId

\* C16: in 'pro' mode, when a logging call that emitted its event returns,
\* the event's record is already in the log file.
C16_RecordInFileOnReturn ==
  (op = "log" /\ call.outcome = "emitted" /\ fileTransport) =>
     \E r \in Records(file) : r.ev = events

\* C17: once the breaker has tripped on a 'pro'-mode logger, a breaker notice
\* is in the log file or in a write on its way to it.
C17_TripNoticeInFile ==
  (fileTransport /\ callbackCalls > 0) =>
     \/ \E i \in 1..Len(file) : file[i].kind = "breakerNotice"
     \/ \E r \in streams : r.kind = "breakerNotice"

\* C18: an incrementErrorCount call that opens the breaker invokes
\* circuitBreakerCallback exactly once; a call made while the breaker is open
\* changes nothing and invokes nothing; no other step invokes the callback.
C18_CallbackOncePerTrip ==
  [][ /\ op' = "incrementErrorCount" =>
           /\ (~breaker.isOpen /\ breaker'.isOpen) => callbackCalls' = callbackCalls + 1
           /\ ~(~breaker.isOpen /\ breaker'.isOpen) => callbackCalls' = callbackCalls
           /\ breaker.isOpen => breaker' = breaker
      /\ op' # "incrementErrorCount" => callbackCalls' = callbackCalls ]_vars

C18_Witness ==
  /\ op = "incrementErrorCount"
  /\ breaker.isOpen
  /\ callbackCalls = 2
  /\ Count = 2
  /\ breaker.errorCount = 2

\* C19: enable() leaves the breaker closed with errorCount 0 and
\* lastResetTime = now whatever its state was, so isEnabled() is then true;
\* trip() leaves it open with lastResetTime = now and the count untouched,
\* and isEnabled() is false for as long as less than a full cooldown has
\* elapsed since that trip() call and enable() has not been called.
C19_ManualOverrides ==
  /\ op = "enable" =>
       /\ ~breaker.isOpen
       /\ breaker.errorCount = 0
       /\ breaker.lastResetTime = now
       /\ IsEnabled(breaker, now).ret
  /\ op = "trip" =>
       /\ breaker.isOpen
       /\ breaker.lastResetTime = now
  /\ (trippedAt >= 0 /\ now - trippedAt < Cooldown) =>
       /\ breaker.isOpen
       /\ ~IsEnabled(breaker, now).ret
       /\ (op = "isEnabled" => ret = FALSE)

C19_Witness ==
  /\ op = "isEnabled"
  /\ ret = FALSE
  /\ trippedAt >= 0
  /\ now > trippedAt
  /\ now - breaker.lastResetTime < Cooldown
  /\ breaker.errorCount = 0

\* C20: getStatus() changes neither the open flag, the count, lastResetTime
\* nor the callback count (no lazy reset, even after the cooldown), and
\* reports remainingCooldown 0 for a closed breaker and
\* max(0, cooldown - (now - lastResetTime)) for an open one.
C20_GetStatusReadOnly ==
  [][ op' = "getStatus" =>
        /\ breaker' = breaker
        /\ callbackCalls' = callbackCalls
        /\ status'.isOpen = breaker.isOpen
        /\ status'.errorCount = breaker.errorCount
        /\ status'.lastResetTime = breaker.lastResetTime
        /\ status'.timeSinceLastReset = now - breaker.lastResetTime
        /\ status'.remainingCooldown >= 0
        /\ ~breaker.isOpen => status'.remainingCooldown = 0
        /\ (breaker.isOpen /\ now - breaker.lastResetTime <= Cooldown) =>
              status'.remainingCooldown = Cooldown - (now - breaker.lastResetTime)
        /\ (breaker.isOpen /\ now - breaker.lastResetTime > Cooldown) =>
              status'.remainingCooldown = 0 ]_vars

C20_Witness ==
  /\ op = "getStatus"
  /\ breaker.isOpen
  /\ status.isOpen
  /\ now - breaker.lastResetTime > Cooldown
  /\ status.remainingCooldown = 0

\* ------------------------------------------------- rotation properties
CheckStep == op' \in {"write", "rotateLogs"}
Threshold == ParseSize(rotation.maxSize)
ActiveSize == inodes[dir[ActiveName]].size
Renamed == [dir EXCEPT ![RotatedName(now)] = dir[ActiveName], ![ActiveName] = 0]
Mtime(d, n) == inodes[d[n]].mtime

\* C11: with rotation enabled, an active file over the parsed maxSize and no
\* rotated sibling yet, one checkAndRotate call leaves exactly one rotated
\* sibling, which is the old file with its content, and no file at the
\* active path; a checkAndRotate call made right after a rotation changes
\* nothing in the directory.
C11_RotatesOnceOnOverflow ==
  [][ CheckStep =>
        /\ ( /\ rotation.enabled
             /\ dir[ActiveName] # 0
             /\ ActiveSize > Threshold
             /\ Siblings(dir) = {} ) =>
               /\ Siblings(dir') = {RotatedName(now)}
               /\ dir'[RotatedName(now)] = dir[ActiveName]
               /\ dir'[ActiveName] = 0
               /\ inodes' = inodes
        /\ (op \in {"write", "rotateLogs"} /\ rot.over) =>
               /\ dir' = dir
               /\ inodes' = inodes ]_vars

C11_Witness ==
  /\ op = "rotateLogs"
  /\ rot.over
  /\ rotation.maxSize = SizeString(10, "k", TRUE)
  /\ dir[ActiveName] = 0
  /\ Siblings(dir) = {RotatedName(now)}
  /\ inodes[dir[RotatedName(now)]].size = 2000

C11_WitnessSecondCall ==
  /\ op = "rotateLogs"
  /\ ~rot.over
  /\ rotation.enabled
  /\ dir[ActiveName] = 0
  /\ Cardinality(Siblings(dir)) = 1
  /\ wstreams = {}
  /\ writes = 0

\* C12: checkAndRotate changes nothing on the filesystem when rotation is
\* disabled, when the file is absent, or when its size is at most the parsed
\* threshold; whenever it does change the directory, rotation is enabled and
\* the size was strictly greater than the threshold.
C12_NoRotationAtOrBelowThreshold ==
  [][ CheckStep =>
        /\ ( \/ ~rotation.enabled
             \/ dir[ActiveName] = 0
             \/ ActiveSize <= Threshold ) =>
               /\ dir' = dir
               /\ inodes' = inodes
               /\ diagnostics' = diagnostics
        /\ dir' # dir =>
               /\ rotation.enabled
               /\ dir[ActiveName] # 0
               /\ ActiveSize > Threshold ]_vars

C12_Witness ==
  /\ op = "rotateLogs"
  /\ rot.checked
  /\ ~rot.over
  /\ rotation.enabled
  /\ dir[ActiveName] # 0
  /\ ActiveSize = Threshold
  /\ ActiveSize = 1024
  /\ Siblings(dir) = {}

\* C13: when a rotation's cleanup finds M siblings of distinct mtimes and
\* maxFiles is N, it unlinks exactly max(0, M - N) of them, each older than
\* every one it keeps, and keeps min(M, N); the file at the active path is
\* not unlinked; after a successful rename at most N siblings remain.
\* (Unlink calls that fail are outside the claim.)
C13_RetentionKeepsNewest ==
  [][ (CheckStep /\ rot'.over /\ ~rot'.unlinkFailed) =>
        LET d1 == IF rot'.renameFailed THEN dir ELSE Renamed
            S == Siblings(d1)
            kept == Siblings(dir')
            M == Cardinality(S)
            N == rotation.maxFiles
        IN (\A x \in S, y \in S : x # y => Mtime(d1, x) # Mtime(d1, y)) =>
             /\ kept \subseteq S
             /\ \A k \in kept : dir'[k] = d1[k]
             /\ Cardinality(S \ kept) = (IF M > N THEN M - N ELSE 0)
             /\ Cardinality(kept) = (IF M < N THEN M ELSE N)
             /\ \A k \in kept, x \in S \ kept : Mtime(d1, k) > Mtime(d1, x)
             /\ dir'[ActiveName] = d1[ActiveName]
             /\ ~rot'.renameFailed => Cardinality(kept) <= N ]_vars

C13_Witness ==
  /\ op \in {"write", "rotateLogs"}
  /\ rot.over
  /\ ~rot.renameFailed
  /\ rot.removed # {}
  /\ RotatedName(now) \notin rot.removed
  /\ Cardinality(Siblings(dir)) = rotation.maxFiles
  /\ \A k \in Siblings(dir) : Mtime(dir, k) > 0

\* C14: when the rename in rotateFile fails, the failure is reported on the
\* diagnostic channel, the active file stays where it is with its content,
\* no file is touched, and the write that triggered the check still opens
\* its append stream for the record.
C14_RenameFailureKeepsActive ==
  [][ (CheckStep /\ rot'.over /\ rot'.renameFailed) =>
        /\ diagnostics' >= diagnostics + 1
        /\ dir[ActiveName] # 0
        /\ dir'[ActiveName] = dir[ActiveName]
        /\ inodes' = inodes
        /\ op' = "write" =>
             /\ writes' = writes + 1
             /\ [ev |-> writes', fd |-> 0] \in wstreams' ]_vars

C14_Witness ==
  /\ op = "write"
  /\ rot.over
  /\ rot.renameFailed
  /\ dir[ActiveName] # 0
  /\ ActiveSize > Threshold
  /\ [ev |-> writes, fd |-> 0] \in wstreams
  /\ diagnostics = 1

\* C15: with rotation enabled and renames succeeding, no append is made to
\* the file at the active path when that file's size already exceeds the
\* threshold.
C15_NoAppendPastThreshold ==
  [][ (op' = "append" /\ rotation.enabled) =>
        \A i \in 1..Len(inodes) :
          (inodes'[i] # inodes[i] /\ dir[ActiveName] = i) =>
             inodes[i].size <= Threshold ]_vars

\* C25: on a fresh breaker, while each incrementErrorCount call arrives no
\* more than circuitBreakerTime after the previous one, errorCount equals the
\* number of calls made (it is never reset to 1), lastResetTime is the time
\* of the last call, and the breaker opens exactly at the Count-th call,
\* whatever the span from the first call to the last; every call made while
\* closed sets lastResetTime to now.
C25_SlidingWindow ==
  /\ [] /\ (scen = "fresh" /\ freshFails >= 1) =>
             /\ breaker.errorCount = freshFails
             /\ breaker.lastResetTime = lastFail
             /\ freshFails < Count
             /\ ~breaker.isOpen
        /\ scen = "tripped" =>
             /\ freshFails = Count
             /\ breaker.errorCount = Count
             /\ breaker.lastResetTime = openedAt
             /\ breaker.isOpen
  /\ [][ (op' = "incrementErrorCount" /\ ~breaker.isOpen) =>
            breaker'.lastResetTime = now ]_vars

C25_Witness ==
  /\ scen = "tripped"
  /\ op = "incrementErrorCount"
  /\ Count = 3
  /\ breaker.errorCount = 3
  /\ firstFail >= 0
  /\ now - firstFail > Window

\* C26: in every reachable state 0 <= errorCount <= Count, and a closed
\* breaker has errorCount < Count.
C26_CountBound ==
  /\ breaker.errorCount >= 0
  /\ breaker.errorCount <= Count
  /\ ~breaker.isOpen => breaker.errorCount < Count

C26_Witness ==
  /\ op = "trip"
  /\ breaker.isOpen
  /\ breaker.errorCount = Count - 1
  /\ Count = MaxCount
  /\ callbackCalls = 1

\* C27: for every emitted log call on a logger with a console and a file
\* sink, the record on the console and the record written to the file
\* (queued in a stream or already in the file) carry the same trace id.
C27_OneEventOneTraceId ==
  \A r \in Records(console) :
    \A q \in streams \cup Records(file) :
      q.ev = r.ev => q.traceId = r.traceId

\* C21: for an emitted event, when the file write fails and the console
\* write does not, the record is on the console; when the console write
\* fails and the file write does not, the record is handed to the file
\* sink; and for an error-level event the breaker's failure count is updated
\* for that event, last, whichever sink failed.
C21_SinkFailuresIsolated ==
  [][ (LogStep /\ (call'.consoleFailed \/ call'.fileFailed)) =>
        /\ call'.outcome = "emitted"
        /\ (call'.fileFailed /\ ~call'.consoleFailed) =>
              /\ \E r \in Records(console') : r.ev = events'
              /\ diagnostics' = diagnostics + 1
        /\ (call'.consoleFailed /\ ~call'.fileFailed) =>
              \E r \in streams' : r.ev = events'
        /\ call'.level = "error" =>
              /\ call'.effects[Len(call'.effects)] = "incrementErrorCount"
              /\ breaker' = IncrementErrorCount(IsEnabled(breaker, now).b, now).b
              /\ callbackCalls' = callbackCalls
                    + IncrementErrorCount(IsEnabled(breaker, now).b, now).fired ]_vars

C21_Witness ==
  /\ op = "log"
  /\ call.level = "error"
  /\ call.outcome = "emitted"
  /\ call.fileFailed
  /\ ~call.consoleFailed
  /\ breaker.isOpen
  /\ breaker.errorCount = 2
  /\ \E r \in Records(console) : r.ev = events
  /\ \A r \in streams : r.ev # events

C21_WitnessConsole ==
  /\ op = "log"
  /\ call.level = "error"
  /\ call.consoleFailed
  /\ ~call.fileFailed
  /\ \A r \in Records(console) : r.ev # events
  /\ \E r \in streams : r.ev = events
  /\ breaker.errorCount = 1

\* C22: the records in the log file are in the order of the log calls that
\* emitted them.
C22_AppendOrder ==
  \A i \in 1..Len(file), j \in 1..Len(file) :
    (i < j /\ file[i].kind = "record" /\ file[j].kind = "record") =>
       file[i].ev < file[j].ev

\* C28: a rotation never takes away a previously rotated file: every rotated
\* sibling present before a checkAndRotate call still names the same file
\* afterwards, unless retention unlinked it.
C28_RotationNeverOverwrites ==
  [][ CheckStep =>
        \A n \in Siblings(dir) : dir'[n] = dir[n] \/ n \in rot'.removed ]_vars

\* C29: a checkAndRotate call unlinks no file other than rotated siblings of
\* the active file: the log files of other origin keep their names, and the
\* active file's name is not among the names unlinked.
C29_RetentionSparesOtherFiles ==
  [][ CheckStep =>
        /\ dir'[OtherLog] = dir[OtherLog]
        /\ dir'[Unrelated] = dir[Unrelated]
        /\ rot'.removed \subseteq {RotatedName(t) : t \in 0..MaxTime} ]_vars

\* ---------------------------------------------------- name properties
Stamp(d, dateTimeSep, end) ==
  Pad(d.year, 4) \o <<"-">> \o Pad(d.month, 2) \o <<"-">> \o Pad(d.day, 2)
  \o dateTimeSep \o Pad(d.hour, 2) \o <<"-">> \o Pad(d.minute, 2)
  \o <<"-">> \o Pad(d.second, 2) \o <<"-">> \o Pad(d.milli, 3) \o end

\* C23 as stated: the rotated file is in the active file's directory and is
\* named <basename>-<timestamp><ext>, the timestamp being the ISO-8601 time
\* of the rotation with every ':' and '.' replaced by '-' and nothing else
\* changed.
C23_IsoNameColonsAndDotsOnly ==
  op = "rotatedPath" =>
     /\ result.dir = arg.path.dir
     /\ result.name = arg.path.base \o <<"-">>
                        \o Stamp(arg.date, <<"T">>, <<"Z">>) \o arg.path.ext

\* C23, amended: the rotated file is in the active file's directory and is
\* named <basename>-<timestamp><ext>, the timestamp being the ISO-8601 time
\* of the rotation with every ':' and '.' replaced by '-', the 'T' replaced
\* by '_' and the final 'Z' dropped: YYYY-MM-DD_HH-mm-ss-SSS.
C23_RotatedName ==
  op = "rotatedPath" =>
     /\ result.dir = arg.path.dir
     /\ result.name = arg.path.base \o <<"-">>
                        \o Stamp(arg.date, <<"_">>, <<>>) \o arg.path.ext

C23_Witness ==
  /\ op = "rotatedPath"
  /\ arg.path.dir = "logs"
  /\ arg.date.hour = 2
  /\ arg.date.second = 59
  /\ arg.date.milli = 5
  /\ Len(result.name) = 31
  /\ result.name[15] = "_"
  /\ result.name[18] = "-"
  /\ result.name[24] = "-"
  /\ SubSeq(result.name, 25, 31) = <<"0", "0", "5", ".", "l", "o", "g">>

Marks(lines) == [i \in 1..Len(lines) |-> lines[i].mark]

\* C24: for every event formatLog returns a record whose lines 2 to 4 are
\* marked 'Trace Id:', 'Function Name:' and 'Metadata:', with absent
\* metadata rendered as {}; the record has no 'Error Stack:' line when no
\* error is attached, and exactly one, after 'Metadata:', when one is.
C24_FormatterLines ==
  op = "formatLog" =>
     /\ ~result.threw
     /\ Len(result.lines) >= 4
     /\ SubSeq(Marks(result.lines), 2, 4)
          = <<"Trace Id:", "Function Name:", "Metadata:">>
     /\ arg.metadata = "absent" => result.lines[4].metadata = "{}"
     /\ arg.error = "absent" =>
          Positions(Marks(result.lines), "Error Stack:") = {}
     /\ arg.error # "absent" =>
          /\ Cardinality(Positions(Marks(result.lines), "Error Stack:")) = 1
          /\ \A i \in Positions(Marks(result.lines), "Error Stack:") : i > 4

====
